---- MODULE Spec2Model ----
(***************************************************************************)
(* Model of the sales-analytics-system: the ingestion path                 *)
(* (parse_transactions, validate_and_filter), the aggregations             *)
(* (daily_sales_trend, find_peak_sales_day, top_selling_products) and the  *)
(* enrichment client (ProductAPIClient.get_product_info).                  *)
(*                                                                         *)
(* Text is modelled as sequences of one-character strings, so that         *)
(* splitting, stripping, comma removal and number parsing are computed.    *)
(* A float is a record [nan, v]: v counts thousandths; nan marks NaN.      *)
(* An optional value (None or a value) is a sequence of length 0 or 1.     *)
(***************************************************************************)
EXTENDS Integers, Sequences, FiniteSets, TLC

VARIABLES
    \* ingestion pipeline
    raw_lines,      \* list of raw lines handed to parse_transactions
    parsed,         \* list returned by parse_transactions
    region,         \* optional region filter passed to validate_and_filter
    min_amount,     \* optional minimum amount filter
    max_amount,     \* optional maximum amount filter
    current,        \* list returned by validate_and_filter
    invalid,        \* invalid count returned by validate_and_filter
    summary,        \* filter_summary returned by validate_and_filter
    peak,           \* tuple returned by find_peak_sales_day
    ipc,            \* position of the pipeline
    \* aggregation on a transaction list
    transactions,   \* list of transaction dicts given to top_selling_products
    top,            \* list returned by top_selling_products
    apc,            \* position of the aggregation caller
    \* enrichment client
    cache,          \* ProductAPIClient.cache: function from cached ids to values
    pc,             \* per caller: position inside get_product_info
    product_id,     \* per caller: argument of the running call
    attempt,        \* per caller: loop variable of the retry loop
    data,           \* per caller: decoded response body of the successful attempt
    result,         \* per caller: value returned by the last finished call
    requests,       \* per caller: urlopen calls issued by the running call
    sleeps,         \* per caller: delays passed to time.sleep by the running call
    calls,          \* per caller: number of calls started
    late,           \* per caller: the call started after a call for its id returned
    returned,       \* history: id -> result of the first call that returned for it
    written         \* history: [id, val] pairs ever stored in the cache

ingestVars == <<raw_lines, parsed, region, min_amount, max_amount, current,
                invalid, summary, peak, ipc>>
aggVars == <<transactions, top, apc>>
apiVars == <<cache, pc, product_id, attempt, data, result, requests, sleeps,
             calls, late, returned, written>>
vars == <<ingestVars, aggVars, apiVars>>

(***************************************************************************)
(* Bounds of the model.                                                    *)
(***************************************************************************)
MaxLines == 2
MaxTransactions == 6
NumProducts == 6
MaxCalls == 3

(***************************************************************************)
(* Text helpers: Python str methods on sequences of characters.            *)
(***************************************************************************)
AsciiDigits == <<"0", "1", "2", "3", "4", "5", "6", "7", "8", "9">>

IsAsciiDigit(ch) == \E i \in 1..10 : AsciiDigits[i] = ch

DigitValue(ch) == (CHOOSE i \in 1..10 : AsciiDigits[i] = ch) - 1

\* the characters of the model's texts in code point order
CodePoints == <<" ", ",", "-", ".", "0", "1", "2", "3", "4", "5", "6", "7",
                "8", "9", "C", "D", "E", "I", "K", "N", "P", "T", "X", "a",
                "b", "c", "d", "e", "h", "i", "k", "n", "r", "s", "|">>

Ord(ch) == CHOOSE i \in 1..Len(CodePoints) : CodePoints[i] = ch

RECURSIVE StrLess(_, _)
\* Python's < on str: lexicographic by code point, a proper prefix is smaller
StrLess(a, b) ==
    IF b = <<>> THEN FALSE
    ELSE IF a = <<>> THEN TRUE
    ELSE IF Head(a) # Head(b) THEN Ord(Head(a)) < Ord(Head(b))
    ELSE StrLess(Tail(a), Tail(b))

RECURSIVE LStrip(_)
LStrip(s) == IF s # <<>> /\ Head(s) = " " THEN LStrip(Tail(s)) ELSE s

RECURSIVE RStrip(_)
RStrip(s) ==
    IF s # <<>> /\ s[Len(s)] = " " THEN RStrip(SubSeq(s, 1, Len(s) - 1)) ELSE s

\* str.strip()
Strip(s) == RStrip(LStrip(s))

RECURSIVE Split(_, _)
\* str.split(sep) for a one-character separator: always at least one part
Split(s, sep) ==
    IF \A i \in 1..Len(s) : s[i] # sep THEN <<s>>
    ELSE LET k == CHOOSE i \in 1..Len(s) :
                      s[i] = sep /\ \A j \in 1..(i - 1) : s[j] # sep
         IN <<SubSeq(s, 1, k - 1)>> \o Split(SubSeq(s, k + 1, Len(s)), sep)

RECURSIVE RemoveChar(_, _)
\* str.replace(ch, "")
RemoveChar(s, ch) ==
    IF s = <<>> THEN <<>>
    ELSE IF Head(s) = ch THEN RemoveChar(Tail(s), ch)
    ELSE <<Head(s)>> \o RemoveChar(Tail(s), ch)

\* str.startswith(ch)
StartsWith(s, ch) == s # <<>> /\ Head(s) = ch

RECURSIVE Join(_, _)
\* sep.join(parts)
Join(parts, sep) ==
    IF parts = <<>> THEN <<>>
    ELSE IF Len(parts) = 1 THEN Head(parts)
    ELSE Head(parts) \o <<sep>> \o Join(Tail(parts), sep)

RECURSIVE DigitsValue(_, _)
DigitsValue(s, acc) ==
    IF s = <<>> THEN acc ELSE DigitsValue(Tail(s), 10 * acc + DigitValue(Head(s)))

AllDigits(s) == s # <<>> /\ \A i \in 1..Len(s) : IsAsciiDigit(s[i])

\* int(text): optional value; <<>> stands for ValueError.  Surrounding
\* whitespace and one leading sign are accepted, then decimal digits only.
IntOf(text) ==
    LET s == Strip(text)
        neg == StartsWith(s, "-")
        body == IF neg \/ StartsWith(s, "+") THEN Tail(s) ELSE s
    IN IF AllDigits(body)
       THEN <<(IF neg THEN -1 ELSE 1) * DigitsValue(body, 0)>>
       ELSE <<>>

NaN == [nan |-> TRUE, v |-> 0]

Num(n) == [nan |-> FALSE, v |-> n]

\* the value in thousandths of a fraction written with up to three digits
FractionValue(s) == DigitsValue(SubSeq(s \o <<"0", "0", "0">>, 1, 3), 0)

\* float(text): optional value; <<>> stands for ValueError.  Accepts the
\* token nan and signed decimals with an optional fraction part.
FloatOf(text) ==
    LET s == Strip(text)
        neg == StartsWith(s, "-")
        body == IF neg \/ StartsWith(s, "+") THEN Tail(s) ELSE s
        parts == Split(body, ".")
        sign == IF neg THEN -1 ELSE 1
    IN IF body = <<"n", "a", "n">> THEN <<NaN>>
       ELSE IF Len(parts) = 1 /\ AllDigits(parts[1])
       THEN <<Num(sign * 1000 * DigitsValue(parts[1], 0))>>
       ELSE IF Len(parts) = 2 /\ (parts[1] = <<>> \/ AllDigits(parts[1]))
               /\ (parts[2] = <<>> \/ AllDigits(parts[2]))
               /\ (parts[1] # <<>> \/ parts[2] # <<>>)
       THEN <<Num(sign * (1000 * DigitsValue(parts[1], 0) + FractionValue(parts[2])))>>
       ELSE <<>>

(***************************************************************************)
(* Float arithmetic and comparisons: any comparison with NaN is false.     *)
(***************************************************************************)
FLess(a, b) == ~a.nan /\ ~b.nan /\ a.v < b.v

FGreater(a, b) == FLess(b, a)

FLessEq(a, b) == ~a.nan /\ ~b.nan /\ a.v <= b.v

FAdd(a, b) == IF a.nan \/ b.nan THEN NaN ELSE Num(a.v + b.v)

\* int * float
FMul(n, a) == IF a.nan THEN NaN ELSE Num(n * a.v)

\* round(x, 2): to hundredths, ties to the even hundredth
Round2(a) ==
    IF a.nan THEN NaN
    ELSE LET q == a.v \div 10
             r == a.v % 10
         IN Num(10 * (IF r > 5 \/ (r = 5 /\ q % 2 = 1) THEN q + 1 ELSE q))

(***************************************************************************)
(* The raw lines of the model: what read_sales_data returns (stripped,      *)
(* non-blank, header removed).                                             *)
(***************************************************************************)
\* T1|d1|P1|Pen|5|10.00|C1|N
\* a valid row, amount 50.00
LineWidget ==
    <<"T", "1", "|", "d", "1", "|", "P", "1", "|", "P", "e", "n", "|", "5",
      "|", "1", "0", ".", "0", "0", "|", "C", "1", "|", "N">>

\* T2|d2|P2|Ink|2|25.00|C2|E
\* a valid row on another date and region, amount 50.00
LineGadget ==
    <<"T", "2", "|", "d", "2", "|", "P", "2", "|", "I", "n", "k", "|", "2",
      "|", "2", "5", ".", "0", "0", "|", "C", "2", "|", "E">>

\* T3|d1|P2|Ink|4|0.001|C2|E
\* a valid row whose amount 0.004 rounds to 0.00
LineEarly ==
    <<"T", "3", "|", "d", "1", "|", "P", "2", "|", "I", "n", "k", "|", "4",
      "|", "0", ".", "0", "0", "1", "|", "C", "2", "|", "E">>

\* T4|d10|P1|Pen|9|10.00|C1|N
\* a valid row, amount 90.00; d1 < d10 < d2 as strings
LineLate ==
    <<"T", "4", "|", "d", "1", "0", "|", "P", "1", "|", "P", "e", "n", "|",
      "9", "|", "1", "0", ".", "0", "0", "|", "C", "1", "|", "N">>

\* T5|d2|P1|Pen| 1,200 |10.5|C1|N
\* thousands separator and padding: quantity 1200, price 10.5
LineThousands ==
    <<"T", "5", "|", "d", "2", "|", "P", "1", "|", "P", "e", "n", "|", " ",
      "1", ",", "2", "0", "0", " ", "|", "1", "0", ".", "5", "|", "C", "1",
      "|", "N">>

\* X6|d1|P1|Pen|5|10.00|C1|N
\* TransactionID does not start with T
LineBadPrefix ==
    <<"X", "6", "|", "d", "1", "|", "P", "1", "|", "P", "e", "n", "|", "5",
      "|", "1", "0", ".", "0", "0", "|", "C", "1", "|", "N">>

\* T7|d2|P3|Desk | Chair|2|50.00|C3|E
\* nine fields: a delimiter inside the product name
LineNine ==
    <<"T", "7", "|", "d", "2", "|", "P", "3", "|", "D", "e", "s", "k", " ",
      "|", " ", "C", "h", "a", "i", "r", "|", "2", "|", "5", "0", ".", "0",
      "0", "|", "C", "3", "|", "E">>

\* T8|d1|P1|Pen|5|10.00|C1
\* seven fields
LineSeven ==
    <<"T", "8", "|", "d", "1", "|", "P", "1", "|", "P", "e", "n", "|", "5",
      "|", "1", "0", ".", "0", "0", "|", "C", "1">>

\* T9|d1|P1|Pen|abc|10.00|C1|N
\* Quantity is not a number
LineBadQty ==
    <<"T", "9", "|", "d", "1", "|", "P", "1", "|", "P", "e", "n", "|", "a",
      "b", "c", "|", "1", "0", ".", "0", "0", "|", "C", "1", "|", "N">>

\* T9|d1|P1|Pen|1|nan|C1|N
\* UnitPrice is the token nan
LineNanPrice ==
    <<"T", "9", "|", "d", "1", "|", "P", "1", "|", "P", "e", "n", "|", "1",
      "|", "n", "a", "n", "|", "C", "1", "|", "N">>

\* T9|d1|P1|Pen|0|10.00|C1|N
\* Quantity 0
LineZeroQty ==
    <<"T", "9", "|", "d", "1", "|", "P", "1", "|", "P", "e", "n", "|", "0",
      "|", "1", "0", ".", "0", "0", "|", "C", "1", "|", "N">>

\* T9|d1|P1|Pen|1|-5|C1|N
\* UnitPrice -5
LineNegPrice ==
    <<"T", "9", "|", "d", "1", "|", "P", "1", "|", "P", "e", "n", "|", "1",
      "|", "-", "5", "|", "C", "1", "|", "N">>

\* T9|d1|P1|Pen|1|10.00|C1|
\* empty Region
LineNoRegion ==
    <<"T", "9", "|", "d", "1", "|", "P", "1", "|", "P", "e", "n", "|", "1",
      "|", "1", "0", ".", "0", "0", "|", "C", "1", "|">>

\* T9|d1|P1|Pen|1|10.00||N
\* empty CustomerID
LineNoCustomer ==
    <<"T", "9", "|", "d", "1", "|", "P", "1", "|", "P", "e", "n", "|", "1",
      "|", "1", "0", ".", "0", "0", "|", "|", "N">>

\* T9|d1|X1|Pen|1|10.00|C1|N
\* ProductID does not start with P
LineBadProduct ==
    <<"T", "9", "|", "d", "1", "|", "X", "1", "|", "P", "e", "n", "|", "1",
      "|", "1", "0", ".", "0", "0", "|", "C", "1", "|", "N">>

\* T9|d1|P1|Pen|1|10.00|K1|N
\* CustomerID does not start with C
LineBadCustomer ==
    <<"T", "9", "|", "d", "1", "|", "P", "1", "|", "P", "e", "n", "|", "1",
      "|", "1", "0", ".", "0", "0", "|", "K", "1", "|", "N">>

Lines ==
    {LineWidget, LineGadget, LineEarly, LineLate,
     LineThousands, LineBadPrefix, LineNine, LineSeven,
     LineBadQty, LineNanPrice, LineZeroQty, LineNegPrice,
     LineNoRegion, LineNoCustomer, LineBadProduct, LineBadCustomer}

(***************************************************************************)
(* parse_transactions                                                      *)
(***************************************************************************)
\* one iteration of the loop: the record appended for a line, or <<>> when
\* the line is skipped (continue)
ParseLine(line) ==
    LET parts == [i \in 1..Len(Split(line, "|")) |-> Strip(Split(line, "|")[i])]
    IN IF Len(parts) # 8 THEN <<>>
       ELSE LET pname == RemoveChar(parts[4], ",")
                qty_clean == RemoveChar(parts[5], ",")
                price_clean == RemoveChar(parts[6], ",")
                qty_int == IntOf(qty_clean)
                price_float == FloatOf(price_clean)
            IN IF qty_int = <<>> \/ price_float = <<>> THEN <<>>
               ELSE <<[TransactionID |-> parts[1],
                       Date |-> parts[2],
                       ProductID |-> parts[3],
                       ProductName |-> pname,
                       Quantity |-> qty_int[1],
                       UnitPrice |-> price_float[1],
                       CustomerID |-> parts[7],
                       Region |-> parts[8]]>>

RECURSIVE parse_transactions(_)
parse_transactions(lines) ==
    IF lines = <<>> THEN <<>>
    ELSE ParseLine(Head(lines)) \o parse_transactions(Tail(lines))

(***************************************************************************)
(* validate_and_filter                                                     *)
(***************************************************************************)
required == {"TransactionID", "Date", "ProductID", "ProductName", "Quantity",
             "UnitPrice", "CustomerID", "Region"}

\* k not in t or t[k] in (None, ""): a number is never equal to None or ""
MissingField(t, k) ==
    \/ k \notin DOMAIN t
    \/ k \notin {"Quantity", "UnitPrice"} /\ t[k] = <<>>

\* the body of the try block raises nothing for t: the record is kept.
\* int() and float() of the parsed numbers cannot fail.
PassesValidation(t) ==
    /\ \A k \in required : ~MissingField(t, k)
    /\ ~(t.Quantity <= 0 \/ FLessEq(t.UnitPrice, Num(0)))
    /\ StartsWith(t.TransactionID, "T")
    /\ StartsWith(t.ProductID, "P")
    /\ StartsWith(t.CustomerID, "C")

\* t2 = dict(t); t2["_amount"] = qty * price
WithAmount(t) ==
    [k \in DOMAIN t \cup {"_amount"} |->
        IF k = "_amount" THEN FMul(t.Quantity, t.UnitPrice) ELSE t[k]]

\* v.pop("_amount", None)
PopAmount(v) == [k \in DOMAIN v \ {"_amount"} |-> v[k]]

RECURSIVE ValidRows(_)
\* the list valid after the validation loop
ValidRows(ts) ==
    IF ts = <<>> THEN <<>>
    ELSE (IF PassesValidation(Head(ts)) THEN <<WithAmount(Head(ts))>> ELSE <<>>)
         \o ValidRows(Tail(ts))

RECURSIVE InvalidCountWithoutPrefixes(_)
InvalidCountWithoutPrefixes(ts) ==
    IF ts = <<>> THEN 0
    ELSE (IF /\ \A k \in required : ~MissingField(Head(ts), k)
             /\ ~(Head(ts).Quantity <= 0 \/ FLessEq(Head(ts).UnitPrice, Num(0)))
          THEN 0 ELSE 1) + InvalidCountWithoutPrefixes(Tail(ts))

RECURSIVE InvalidCount(_)
\* the counter invalid after the validation loop
InvalidCount(ts) ==
    IF ts = <<>> THEN 0
    ELSE (IF PassesValidation(Head(ts)) THEN 0 ELSE 1) + InvalidCount(Tail(ts))

RECURSIVE RegionFilter(_, _)
\* [v for v in current if v["Region"] == region]
RegionFilter(vs, r) ==
    IF vs = <<>> THEN <<>>
    ELSE (IF Head(vs).Region = r THEN <<Head(vs)>> ELSE <<>>)
         \o RegionFilter(Tail(vs), r)

\* the nested function ok(v)
AmountOk(v, lo, hi) ==
    /\ ~(lo # <<>> /\ FLess(v["_amount"], lo[1]))
    /\ ~(hi # <<>> /\ FGreater(v["_amount"], hi[1]))

RECURSIVE AmountFilter(_, _, _)
\* [v for v in current if ok(v)]
AmountFilter(vs, lo, hi) ==
    IF vs = <<>> THEN <<>>
    ELSE (IF AmountOk(Head(vs), lo, hi) THEN <<Head(vs)>> ELSE <<>>)
         \o AmountFilter(Tail(vs), lo, hi)

\* t2 = t instead of a copy: every write to t2 is a write to the input dict
SharesInputAlways(t) == TRUE

\* t2 = dict(t) is a new dict object: t2 is t is false, so the writes to t2
\* (line 160) and to the elements of current (line 208) leave t alone
SharesInput(t) == FALSE

\* the input dict t as the call leaves it: untouched unless t2 is t, in
\* which case it got "_amount" and lost it again only if it was returned
InputAfter(t, r, lo, hi) ==
    IF ~PassesValidation(t) \/ ~SharesInput(t) THEN t
    ELSE LET v == WithAmount(t)
             kept == /\ (r = <<>> \/ v.Region = r[1])
                     /\ ((lo = <<>> /\ hi = <<>>) \/ AmountOk(v, lo, hi))
         IN IF kept THEN PopAmount(v) ELSE v

\* the triple (current, invalid, summary) returned for the given arguments,
\* and the argument list as the call leaves it
validate_and_filter(ts, r, lo, hi) ==
    LET valid == ValidRows(ts)
        inv == InvalidCount(ts)
        afterRegion == IF r # <<>> THEN RegionFilter(valid, r[1]) ELSE valid
        afterAmount == IF lo # <<>> \/ hi # <<>>
                       THEN AmountFilter(afterRegion, lo, hi)
                       ELSE afterRegion
    IN [current |-> [i \in 1..Len(afterAmount) |-> PopAmount(afterAmount[i])],
        invalid |-> inv,
        summary |-> [total_input |-> Len(ts),
                     invalid |-> inv,
                     filtered_by_region |-> Len(valid) - Len(afterRegion),
                     filtered_by_amount |-> Len(afterRegion) - Len(afterAmount),
                     final_count |-> Len(afterAmount)],
        transactions |-> [i \in 1..Len(ts) |-> InputAfter(ts[i], r, lo, hi)]]

(***************************************************************************)
(* daily_sales_trend and find_peak_sales_day                               *)
(***************************************************************************)
\* _qty(tx): int(str(q)) gives back the int q
Qty(tx) == tx.Quantity

\* _price(tx): float(str(p)) gives back the float p, NaN included
Price(tx) == tx.UnitPrice

\* _amount(tx)
Amount(tx) == FMul(Qty(tx), Price(tx))

RECURSIVE SortedStrs(_)
\* sorted(keys) for a set of distinct strings
SortedStrs(S) ==
    IF S = {} THEN <<>>
    ELSE LET m == CHOOSE x \in S : \A y \in S \ {x} : StrLess(x, y)
         IN <<m>> \o SortedStrs(S \ {m})

RECURSIVE SumAmounts(_, _)
\* rev[d] after the loop: the amounts of date d added in list order to 0.0
SumAmounts(ts, d) ==
    IF ts = <<>> THEN Num(0)
    ELSE LET rest == SumAmounts(SubSeq(ts, 1, Len(ts) - 1), d)
             last == ts[Len(ts)]
         IN IF last.Date = d THEN FAdd(rest, Amount(last)) ELSE rest

\* the dict returned, as the list of its items in insertion order
daily_sales_trend(ts) ==
    LET keys == SortedStrs({ts[i].Date : i \in 1..Len(ts)})
    IN [j \in 1..Len(keys) |->
          [date |-> keys[j],
           revenue |-> Round2(SumAmounts(ts, keys[j])),
           transaction_count |->
               Cardinality({i \in 1..Len(ts) : ts[i].Date = keys[j]}),
           unique_customers |->
               Cardinality({ts[i].CustomerID : i \in
                               {i2 \in 1..Len(ts) : ts[i2].Date = keys[j]}})]]

\* min(daily.keys())
MinKey(daily) ==
    CHOOSE d \in {daily[j].date : j \in 1..Len(daily)} :
        \A j \in 1..Len(daily) : daily[j].date = d \/ StrLess(d, daily[j].date)

\* daily[d]
DayOf(daily, d) == daily[CHOOSE j \in 1..Len(daily) : daily[j].date = d]

RECURSIVE PeakLoop(_, _, _)
\* the loop over daily.items() from item j on, with best_date = best
PeakLoop(daily, j, best) ==
    IF j > Len(daily) THEN best
    ELSE IF FGreater(daily[j].revenue, DayOf(daily, best).revenue)
    THEN PeakLoop(daily, j + 1, daily[j].date)
    ELSE PeakLoop(daily, j + 1, best)

find_peak_sales_day(ts) ==
    LET daily == daily_sales_trend(ts)
    IN IF daily = <<>> THEN [date |-> <<>>, revenue |-> Num(0), count |-> 0]
       ELSE LET best_date == PeakLoop(daily, 1, MinKey(daily))
            IN [date |-> best_date,
                revenue |-> DayOf(daily, best_date).revenue,
                count |-> DayOf(daily, best_date).transaction_count]

(***************************************************************************)
(* The ingestion pipeline: the caller parses the raw lines, validates the  *)
(* parsed rows with a choice of filters, and asks for the peak sales day   *)
(* of the records it got back.                                             *)
(***************************************************************************)
Callers == {"c1", "c2"}

EmptyMap == [k \in {} |-> "none"]

NoSummary == [total_input |-> 0, invalid |-> 0, filtered_by_region |-> 0,
              filtered_by_amount |-> 0, final_count |-> 0]

NoPeak == [date |-> <<>>, revenue |-> Num(0), count |-> 0]

\* the filter arguments a caller may pass; <<>> is None
RegionArgs == {<<>>, << <<"N">> >>}

MinArgs == {<<>>, <<Num(50000)>>}

MaxArgs == {<<>>, <<Num(60000)>>}

IngestIdle ==
    /\ raw_lines = <<>>
    /\ parsed = <<>>
    /\ region = <<>>
    /\ min_amount = <<>>
    /\ max_amount = <<>>
    /\ current = <<>>
    /\ invalid = 0
    /\ summary = NoSummary
    /\ peak = NoPeak
    /\ ipc = "input"

AggIdle ==
    /\ transactions = <<>>
    /\ top = <<>>
    /\ apc = "input"

ApiIdle ==
    /\ cache = EmptyMap
    /\ pc = [c \in Callers |-> "idle"]
    /\ product_id = [c \in Callers |-> <<>>]
    /\ attempt = [c \in Callers |-> 0]
    /\ data = [c \in Callers |-> "none"]
    /\ result = [c \in Callers |-> "none"]
    /\ requests = [c \in Callers |-> 0]
    /\ sleeps = [c \in Callers |-> <<>>]
    /\ calls = [c \in Callers |-> 0]
    /\ late = [c \in Callers |-> FALSE]
    /\ returned = EmptyMap
    /\ written = {}

InitIngest ==
    /\ raw_lines \in UNION {[1..n -> Lines] : n \in 0..MaxLines}
    /\ parsed = <<>>
    /\ region = <<>>
    /\ min_amount = <<>>
    /\ max_amount = <<>>
    /\ current = <<>>
    /\ invalid = 0
    /\ summary = NoSummary
    /\ peak = NoPeak
    /\ ipc = "input"
    /\ AggIdle
    /\ ApiIdle

ParseTransactions ==
    /\ ipc = "input"
    /\ parsed' = parse_transactions(raw_lines)
    /\ ipc' = "parsed"
    /\ UNCHANGED <<raw_lines, region, min_amount, max_amount, current, invalid,
                   summary, peak>>
    /\ UNCHANGED <<aggVars, apiVars>>

ValidateAndFilter ==
    /\ ipc = "parsed"
    /\ \E r \in RegionArgs, lo \in MinArgs, hi \in MaxArgs :
         LET out == validate_and_filter(parsed, r, lo, hi)
         IN /\ region' = r
            /\ min_amount' = lo
            /\ max_amount' = hi
            /\ current' = out.current
            /\ invalid' = out.invalid
            /\ summary' = out.summary
            /\ parsed' = out.transactions
    /\ ipc' = "validated"
    /\ UNCHANGED <<raw_lines, peak>>
    /\ UNCHANGED <<aggVars, apiVars>>

FindPeakSalesDay ==
    /\ ipc = "validated"
    /\ peak' = find_peak_sales_day(current)
    /\ ipc' = "analysed"
    /\ UNCHANGED <<raw_lines, parsed, region, min_amount, max_amount, current,
                   invalid, summary>>
    /\ UNCHANGED <<aggVars, apiVars>>

NextIngest ==
    \/ ParseTransactions
    \/ ValidateAndFilter
    \/ FindPeakSalesDay

SpecIngest == InitIngest /\ [][NextIngest]_vars

NoFilters == region = <<>> /\ min_amount = <<>> /\ max_amount = <<>>

Validated == ipc \in {"validated", "analysed"}

\* C1: when the parsed rows are validated without filters, the accepted
\* records are at most the parsed rows (total_parsed = total_input) and the
\* invalid count is total_parsed minus the number of accepted records.
C1_Counters ==
    Validated =>
        /\ summary.total_input = Len(parsed)
        /\ Len(current) <= summary.total_input
        /\ NoFilters => invalid = summary.total_input - Len(current)

\* a run without filters that both rejected and accepted at least one row
C1_Witness ==
    /\ Validated
    /\ NoFilters
    /\ invalid > 0
    /\ Len(current) > 0

\* C11: whatever filters are passed, the summary conserves rows
\* (total_input = invalid + filtered_by_region + filtered_by_amount +
\* final_count), final_count is the length of the returned list, the
\* returned invalid count is summary.invalid, the input dicts are as the
\* parser made them, and no returned record has the key "_amount".
C11_SummaryConservesRows ==
    Validated =>
        /\ summary.total_input = Len(parsed)
        /\ summary.total_input = summary.invalid + summary.filtered_by_region
                                 + summary.filtered_by_amount
                                 + summary.final_count
        /\ summary.final_count = Len(current)
        /\ invalid = summary.invalid
        /\ summary.filtered_by_region >= 0
        /\ summary.filtered_by_amount >= 0
        /\ parsed = parse_transactions(raw_lines)
        /\ \A i \in 1..Len(parsed) : "_amount" \notin DOMAIN parsed[i]
        /\ \A i \in 1..Len(current) : "_amount" \notin DOMAIN current[i]

\* both filters were passed and each removed a valid row
C11_Witness ==
    /\ Validated
    /\ region # <<>>
    /\ min_amount # <<>>
    /\ max_amount # <<>>
    /\ summary.filtered_by_region > 0
    /\ summary.filtered_by_amount > 0

\* C2: every raw line that does not become an accepted record is counted in
\* the invalid counter returned by a validation without filters.
C2_EveryDropCounted ==
    (Validated /\ NoFilters) => Len(raw_lines) = Len(current) + invalid

\* C3: every accepted record has a TransactionID starting with T, a
\* non-empty CustomerID and Region, Quantity > 0 and UnitPrice > 0.
C3_AcceptedAreValid ==
    Validated =>
        \A i \in 1..Len(current) :
            /\ StartsWith(current[i].TransactionID, "T")
            /\ current[i].CustomerID # <<>>
            /\ current[i].Region # <<>>
            /\ current[i].Quantity > 0
            /\ FGreater(current[i].UnitPrice, Num(0))

\* the fields of a raw line, stripped
FieldsOf(line) == [i \in 1..Len(Split(line, "|")) |-> Strip(Split(line, "|")[i])]

\* C4: a line of more than 8 fields is parsed: its first 3 and last 4 fields
\* map directly and the fields between are rejoined into ProductName.
C4_SurplusFieldsRejoined ==
    ipc # "input" =>
        \A i \in 1..Len(raw_lines) :
            LET f == FieldsOf(raw_lines[i])
                n == Len(f)
            IN n > 8 =>
                \E j \in 1..Len(parsed) :
                    /\ parsed[j].TransactionID = f[1]
                    /\ parsed[j].ProductName = Join(SubSeq(f, 4, n - 4), "|")
                    /\ parsed[j].Region = f[n]

\* C8: the peak day is a date of maximum daily revenue, the smallest such
\* date, and is returned with its own revenue and transaction count.
C8_PeakIsEarliestMaximum ==
    (ipc = "analysed" /\ current # <<>>) =>
        LET daily == daily_sales_trend(current)
        IN /\ \E j \in 1..Len(daily) :
                /\ daily[j].date = peak.date
                /\ daily[j].revenue = peak.revenue
                /\ daily[j].transaction_count = peak.count
           /\ \A j \in 1..Len(daily) :
                \/ daily[j].date = peak.date
                \/ FLess(daily[j].revenue, peak.revenue)
                \/ /\ daily[j].revenue = peak.revenue
                   /\ StrLess(peak.date, daily[j].date)

(***************************************************************************)
(* ProductAPIClient.get_product_info                                       *)
(***************************************************************************)
max_retries == 2

\* backoff_sec = 0.5, counted in tenths of a second
backoff_sec == 5

\* stands for the one character U+00B2 (superscript two): str.isdigit() is
\* true of it and int() rejects it
Superscript2 == "sup2"

IdP7 == <<"P", "7">>

IdNoDigits == <<"P", "X">>

IdSuperscript == <<"P", Superscript2>>

ProductIds == {IdP7, IdNoDigits, IdSuperscript}

\* ch.isdigit()
IsDigit(ch) == IsAsciiDigit(ch) \/ ch = Superscript2

RECURSIVE Numeric(_)
\* "".join(ch for ch in product_id if ch.isdigit())
Numeric(id) ==
    IF id = <<>> THEN <<>>
    ELSE (IF IsDigit(Head(id)) THEN <<Head(id)>> ELSE <<>>) \o Numeric(Tail(id))

\* the exceptions the retry loop catches
Caught == {"HTTPError", "URLError", "TimeoutError", "ValueError"}

\* what one attempt (urlopen, read, decode, json.loads) can end with: the
\* decoded body, a caught exception, or an exception of http.client that is
\* none of the caught classes (IncompleteRead, RemoteDisconnected)
Outcomes == {"ok"} \cup Caught \cup {"HTTPException"}

RECURSIVE Pow2(_)
Pow2(k) == IF k = 0 THEN 1 ELSE 2 * Pow2(k - 1)

\* the argument of time.sleep after the failed attempt number k
BackoffDelayConstant(k) == backoff_sec

BackoffDelay(k) == backoff_sec * Pow2(k)

\* self.cache[k] = v
Put(m, k, v) == [x \in DOMAIN m \cup {k} |-> IF x = k THEN v ELSE m[x]]

\* the cache after line 46, reached when every attempt failed
ExhaustedCacheUnchanged(c) == cache

ExhaustedCache(c) == Put(cache, product_id[c], "empty")

\* the history kept when caller c returns v from its call
Returns(c, v) ==
    /\ result' = [result EXCEPT ![c] = v]
    /\ pc' = [pc EXCEPT ![c] = "returned"]
    /\ returned' = IF product_id[c] \in DOMAIN returned THEN returned
                   ELSE Put(returned, product_id[c], v)

\* a caller starts get_product_info(id)
Call(c, id) ==
    /\ pc[c] \in {"idle", "returned", "raised"}
    /\ calls[c] < MaxCalls
    /\ calls' = [calls EXCEPT ![c] = @ + 1]
    /\ product_id' = [product_id EXCEPT ![c] = id]
    /\ pc' = [pc EXCEPT ![c] = "lookup"]
    /\ attempt' = [attempt EXCEPT ![c] = 0]
    /\ requests' = [requests EXCEPT ![c] = 0]
    /\ sleeps' = [sleeps EXCEPT ![c] = <<>>]
    /\ data' = [data EXCEPT ![c] = "none"]
    /\ result' = [result EXCEPT ![c] = "none"]
    /\ late' = [late EXCEPT ![c] = id \in DOMAIN returned]
    /\ UNCHANGED <<cache, returned, written>>
    /\ UNCHANGED <<ingestVars, aggVars>>

\* lines 24-25: the cache lookup
Lookup(c) ==
    /\ pc[c] = "lookup"
    /\ IF product_id[c] \in DOMAIN cache
       THEN Returns(c, cache[product_id[c]])
       ELSE /\ pc' = [pc EXCEPT ![c] = "digits"]
            /\ UNCHANGED <<result, returned>>
    /\ UNCHANGED <<cache, product_id, attempt, data, requests, sleeps, calls,
                   late, written>>
    /\ UNCHANGED <<ingestVars, aggVars>>

\* lines 27-33: the numeric part of the id; int(numeric) is outside the try
ExtractDigits(c) ==
    /\ pc[c] = "digits"
    /\ IF Numeric(product_id[c]) = <<>>
       THEN /\ cache' = Put(cache, product_id[c], "empty")
            /\ written' = written \cup {<<product_id[c], "empty">>}
            /\ Returns(c, "empty")
       ELSE /\ pc' = [pc EXCEPT ![c] =
                        IF IntOf(Numeric(product_id[c])) = <<>> THEN "raised"
                        ELSE "attempt"]
            /\ UNCHANGED <<cache, written, result, returned>>
    /\ UNCHANGED <<product_id, attempt, data, requests, sleeps, calls, late>>
    /\ UNCHANGED <<ingestVars, aggVars>>

\* lines 35-44: one iteration of the retry loop, up to the cache write
Attempt(c, outcome) ==
    /\ pc[c] = "attempt"
    /\ attempt[c] < max_retries + 1
    /\ requests' = [requests EXCEPT ![c] = @ + 1]
    /\ IF outcome = "ok"
       THEN /\ data' = [data EXCEPT ![c] = "data"]
            /\ pc' = [pc EXCEPT ![c] = "store"]
            /\ UNCHANGED <<attempt, sleeps>>
       ELSE IF outcome \in Caught
       THEN IF attempt[c] = max_retries
            THEN /\ pc' = [pc EXCEPT ![c] = "exhausted"]
                 /\ UNCHANGED <<attempt, sleeps, data>>
            ELSE /\ sleeps' = [sleeps EXCEPT ![c] = Append(@, BackoffDelay(attempt[c]))]
                 /\ attempt' = [attempt EXCEPT ![c] = @ + 1]
                 /\ UNCHANGED <<pc, data>>
       ELSE /\ pc' = [pc EXCEPT ![c] = "raised"]
            /\ UNCHANGED <<attempt, sleeps, data>>
    /\ UNCHANGED <<cache, product_id, result, calls, late, returned, written>>
    /\ UNCHANGED <<ingestVars, aggVars>>

\* lines 39-40: the successful attempt stores and returns the body
Store(c) ==
    /\ pc[c] = "store"
    /\ cache' = Put(cache, product_id[c], data[c])
    /\ written' = written \cup {<<product_id[c], data[c]>>}
    /\ Returns(c, data[c])
    /\ UNCHANGED <<product_id, attempt, data, requests, sleeps, calls, late>>
    /\ UNCHANGED <<ingestVars, aggVars>>

\* lines 46-47: every attempt failed
Exhausted(c) ==
    /\ pc[c] = "exhausted"
    /\ cache' = ExhaustedCache(c)
    /\ written' = written \cup
                    {<<k, cache'[k]>> : k \in DOMAIN cache' \ DOMAIN cache}
    /\ Returns(c, "empty")
    /\ UNCHANGED <<product_id, attempt, data, requests, sleeps, calls, late>>
    /\ UNCHANGED <<ingestVars, aggVars>>

\* a step of caller c inside get_product_info
Step(c) ==
    \/ Lookup(c)
    \/ ExtractDigits(c)
    \/ \E outcome \in Outcomes : Attempt(c, outcome)
    \/ Store(c)
    \/ Exhausted(c)

InitApi ==
    /\ IngestIdle
    /\ AggIdle
    /\ ApiIdle

\* one caller, as in main: each call ends before the next starts
NextApi ==
    \/ \E id \in ProductIds : Call("c1", id)
    \/ Step("c1")

SpecApi == InitApi /\ [][NextApi]_vars /\ WF_vars(Step("c1"))

\* two callers share one client
NextApiConcurrent ==
    \E c \in Callers :
        \/ \E id \in ProductIds : Call(c, id)
        \/ Step(c)

SpecApiConcurrent == InitApi /\ [][NextApiConcurrent]_vars

\* C5: once a call for an id has returned, the id stays cached with the
\* value that call returned, and every call started later for that id
\* issues no request and returns that value.
C5_RepeatCallsServedFromCache ==
    /\ \A id \in DOMAIN returned :
          id \in DOMAIN cache /\ cache[id] = returned[id]
    /\ \A c \in Callers :
          late[c] =>
              /\ requests[c] = 0
              /\ pc[c] \in {"lookup", "returned"}
              /\ pc[c] = "returned" => result[c] = returned[product_id[c]]

\* a repeated call for an id whose lookup had failed is served the cached
\* empty object
C5_Witness ==
    /\ late["c1"]
    /\ pc["c1"] = "returned"
    /\ product_id["c1"] = IdP7
    /\ result["c1"] = "empty"

\* C6: no error escapes get_product_info, whatever the id and whatever the
\* attempts end with.
C6_NoErrorEscapes == \A c \in Callers : pc[c] # "raised"

\* the retry discipline of the running or finished call of caller c
RetryDiscipline(c) ==
    LET n == requests[c]
        s == sleeps[c]
    IN /\ n <= max_retries + 1
       /\ \A k \in 1..Len(s) : s[k] = backoff_sec * Pow2(k - 1)
       /\ pc[c] = "attempt" => Len(s) = n /\ n <= max_retries
       /\ pc[c] = "store" => Len(s) = n - 1
       /\ pc[c] = "exhausted" => n = max_retries + 1 /\ Len(s) = max_retries
       /\ (pc[c] = "returned" /\ n > 0) =>
             \/ result[c] = "data" /\ Len(s) = n - 1
             \/ result[c] = "empty" /\ n = max_retries + 1 /\ Len(s) = max_retries

InCall(c) == pc[c] \in {"lookup", "digits", "attempt", "store", "exhausted"}

\* C7: a call makes at most max_retries + 1 attempts, stops at the first
\* success, waits backoff_sec * 2^k after failed attempt k when another
\* attempt follows, does not wait after the last one, and ends.
C7_BoundedRetriesWithBackoff ==
    /\ [](\A c \in Callers : RetryDiscipline(c))
    /\ \A c \in Callers : InCall(c) ~> ~InCall(c)

\* a call that succeeded on its third attempt after waiting 0.5 and 1.0
C7_Witness ==
    /\ pc["c1"] = "returned"
    /\ result["c1"] = "data"
    /\ requests["c1"] = max_retries + 1
    /\ sleeps["c1"] = <<5, 10>>

\* C10: each id is committed to the cache with one value only, and calls
\* for the same id do not end with different results.
C10_SingleCommitPerId ==
    /\ \A w1 \in written, w2 \in written : w1[1] = w2[1] => w1[2] = w2[2]
    /\ \A c1 \in Callers, c2 \in Callers :
          (pc[c1] = "returned" /\ pc[c2] = "returned"
              /\ product_id[c1] = product_id[c2]) => result[c1] = result[c2]

(***************************************************************************)
(* top_selling_products                                                    *)
(***************************************************************************)
\* the default of the parameter n
TopN == 5

RECURSIVE FirstSeen(_)
\* the keys of qty_by_product in insertion order: the product names of the
\* list in order of first occurrence
FirstSeen(ts) ==
    IF ts = <<>> THEN <<>>
    ELSE LET before == FirstSeen(SubSeq(ts, 1, Len(ts) - 1))
             p == ts[Len(ts)].ProductName
         IN IF \E i \in 1..Len(before) : before[i] = p THEN before
            ELSE Append(before, p)

RECURSIVE QtyByProduct(_, _)
\* qty_by_product[p] after the loop
QtyByProduct(ts, p) ==
    IF ts = <<>> THEN 0
    ELSE QtyByProduct(Tail(ts), p)
         + (IF Head(ts).ProductName = p THEN Qty(Head(ts)) ELSE 0)

RECURSIVE RevByProduct(_, _)
\* rev_by_product[p] after the loop: amounts added in list order to 0.0
RevByProduct(ts, p) ==
    IF ts = <<>> THEN Num(0)
    ELSE LET rest == RevByProduct(SubSeq(ts, 1, Len(ts) - 1), p)
             last == ts[Len(ts)]
         IN IF last.ProductName = p THEN FAdd(rest, Amount(last)) ELSE rest

RECURSIVE InsertBeforeEqual(_, _)
InsertBeforeEqual(sorted, row) ==
    IF sorted = <<>> THEN <<row>>
    ELSE IF Head(sorted).qty > row.qty
    THEN <<Head(sorted)>> \o InsertBeforeEqual(Tail(sorted), row)
    ELSE <<row>> \o sorted

RECURSIVE InsertDescending(_, _)
\* the place of a row in a list sorted by quantity, reverse=True: the sort
\* is stable, so the row goes behind the rows of equal quantity
InsertDescending(sorted, row) ==
    IF sorted = <<>> THEN <<row>>
    ELSE IF Head(sorted).qty >= row.qty
    THEN <<Head(sorted)>> \o InsertDescending(Tail(sorted), row)
    ELSE <<row>> \o sorted

RECURSIVE SortDescending(_)
\* rows.sort(key=lambda x: x[1], reverse=True)
SortDescending(rows) ==
    IF rows = <<>> THEN <<>>
    ELSE InsertDescending(SortDescending(SubSeq(rows, 1, Len(rows) - 1)),
                          rows[Len(rows)])

top_selling_products(ts, n) ==
    LET keys == FirstSeen(ts)
        rows == [i \in 1..Len(keys) |->
                    [name |-> keys[i],
                     qty |-> QtyByProduct(ts, keys[i]),
                     revenue |-> Round2(RevByProduct(ts, keys[i]))]]
        sorted == SortDescending(rows)
    IN SubSeq(sorted, 1, IF Len(sorted) < n THEN Len(sorted) ELSE n)

(***************************************************************************)
(* A caller builds a list of accepted transactions and ranks the products. *)
(* Product names are opaque keys; they are first used either in ascending  *)
(* or in descending order of the names.                                    *)
(***************************************************************************)
NameOf(k) == <<"n", AsciiDigits[k + 1]>>

Ascending == [k \in 1..NumProducts |-> NameOf(k)]

Descending == [k \in 1..NumProducts |-> NameOf(NumProducts + 1 - k)]

Quantities == {1, 2}

\* with the names seen so far: name p is one of them, or is the next new
\* name of one order
MayUse(seen, p) ==
    \/ \E i \in 1..Len(seen) : seen[i] = p
    \/ /\ Len(seen) < NumProducts
       /\ \E order \in {Ascending, Descending} :
             order[Len(seen) + 1] = p /\ SubSeq(order, 1, Len(seen)) = seen

Sale(p, q) ==
    [TransactionID |-> <<"T", "1">>, Date |-> <<"d", "1">>,
     ProductID |-> <<"P", "1">>, ProductName |-> p, Quantity |-> q,
     UnitPrice |-> Num(1500), CustomerID |-> <<"C", "1">>,
     Region |-> <<"N">>]

InitTop ==
    /\ IngestIdle
    /\ AggIdle
    /\ ApiIdle

AddTransaction ==
    /\ apc = "input"
    /\ Len(transactions) < MaxTransactions
    /\ LET seen == FirstSeen(transactions)
       IN \E k \in {i \in 1..NumProducts : MayUse(seen, NameOf(i))} :
             \E q \in Quantities :
                 transactions' = Append(transactions, Sale(NameOf(k), q))
    /\ UNCHANGED <<top, apc>>
    /\ UNCHANGED <<ingestVars, apiVars>>

TopSellingProducts ==
    /\ apc = "input"
    /\ top' = top_selling_products(transactions, TopN)
    /\ apc' = "ranked"
    /\ UNCHANGED transactions
    /\ UNCHANGED <<ingestVars, apiVars>>

NextTop ==
    \/ AddTransaction
    \/ TopSellingProducts

SpecTop == InitTop /\ [][NextTop]_vars

\* the position of the first transaction of product p
FirstIndex(p) ==
    CHOOSE i \in 1..Len(transactions) :
        /\ transactions[i].ProductName = p
        /\ \A j \in 1..(i - 1) : transactions[j].ProductName # p

\* the total quantity sold of product p
TotalQuantity(p) ==
    LET Sum[i \in 0..Len(transactions)] ==
            IF i = 0 THEN 0
            ELSE Sum[i - 1] + (IF transactions[i].ProductName = p
                               THEN transactions[i].Quantity ELSE 0)
    IN Sum[Len(transactions)]

\* product p ranks before product r: more sold, or as many and seen first
RanksBefore(p, r) ==
    \/ TotalQuantity(p) > TotalQuantity(r)
    \/ /\ TotalQuantity(p) = TotalQuantity(r)
       /\ FirstIndex(p) < FirstIndex(r)

SoldNames == {transactions[i].ProductName : i \in 1..Len(transactions)}

\* C9: top_selling_products(transactions) returns at most 5 rows, one per
\* product name, each with the product's total quantity, by quantity
\* descending with ties in order of first occurrence, and they are the
\* first 5 products of that ranking.
C9_TopFiveByQuantity ==
    apc = "ranked" =>
        /\ Len(top) <= 5
        /\ Len(top) = IF Cardinality(SoldNames) < 5
                      THEN Cardinality(SoldNames) ELSE 5
        /\ \A i \in 1..Len(top) :
              /\ top[i].name \in SoldNames
              /\ top[i].qty = TotalQuantity(top[i].name)
        /\ \A i \in 1..Len(top), j \in 1..Len(top) :
              i < j => RanksBefore(top[i].name, top[j].name)
        /\ \A p \in SoldNames :
              (\A i \in 1..Len(top) : top[i].name # p) =>
                  \A i \in 1..Len(top) : RanksBefore(top[i].name, p)

\* more than 5 products were sold, one was cut, and a tie in quantity was
\* broken against the order of the names
C9_Witness ==
    /\ apc = "ranked"
    /\ Cardinality(SoldNames) > 5
    /\ Len(top) = 5
    /\ \E i \in 1..4 :
          /\ top[i].qty = top[i + 1].qty
          /\ StrLess(top[i + 1].name, top[i].name)

====
